---- MODULE Spec2Model ----
(***************************************************************************)
(* Verification model of the auto-kick plugin (src/src/index.ts).          *)
(*                                                                         *)
(* Three specifications share this module:                                 *)
(*   SpecCC    the ConcurrencyController (execute / processQueue);         *)
(*   SpecKick  one call of kickUserWithRetry (with verifyUserKicked);      *)
(*   SpecJoin  the guild-member-added handler, the nickname cache, the     *)
(*             recheck timers, delayedNicknameCheck and the dispose hook.  *)
(* JavaScript runs one callback at a time, so an action is the code that   *)
(* runs between two awaits.                                                *)
(***************************************************************************)
EXTENDS Integers, Sequences, FiniteSets, TLC

VARIABLES
    \* ---- ConcurrencyController
    maxConcurrent,   \* constructor argument (config.maxConcurrent)
    running,         \* this.running
    queue,           \* this.queue, the queued task wrappers, oldest first
    tstate,          \* per task: "new" | "queued" | "running" | "resolved" | "rejected"
    submitSeq,       \* history: tasks in the order execute() was called
    startSeq,        \* history: tasks in the order their wrapper was called
    everQueued,      \* history: tasks still queued when their execute() returned
    \* ---- kickUserWithRetry (one call)
    retryAttempts,   \* config.retryAttempts
    verifyKickResult,\* config.verifyKickResult
    sessionHasSend,  \* whether the session argument has a send method
    notifyAdmins,    \* config.notifyAdmins
    kick,            \* the locals of the call, its position and what it has done
    \* ---- apply(): blacklist manager, join handler, nickname cache, timers
    enableMemberJoin,            \* config.enableMemberJoin
    skipBotMembers,              \* config.skipBotMembers
    enableDelayedNicknameCheck,  \* config.enableDelayedNicknameCheck
    nicknameMatchMode,           \* config.nicknameMatchMode
    blacklistSet,                \* BlacklistManager.blacklistSet
    nicknameBlacklist,           \* BlacklistManager.nicknameBlacklist
    loaded,                      \* history: the arguments of the last updateBlacklist call
    everListed,                  \* history: identifiers listed by any load so far
    lastQuery,                   \* the classification being made, with its results
    newUserNicknameCache,        \* the Map userId -> {nickname, guildId}
    handlers,                    \* the guild-member-added handler activations
    timers,                      \* the setTimeout callbacks armed by the handlers
    disposed,                    \* the dispose event has been handled
    \* ---- scanExistingMembers and the statistics
    enableJoinScan,              \* config.enableJoinScan
    enableStats,                 \* config.enableStats
    batchSize,                   \* config.batchSize
    stats,                       \* BlacklistManager.stats
    scan,                        \* the scanExistingMembers activation and its locals
    \* ---- the operator commands of src/unnamed/part_000
    configBlacklist,             \* config.blacklist, the array the commands edit
    cmd                          \* the last command or join handled, with its reply

ccVars == <<maxConcurrent, running, queue, tstate, submitSeq, startSeq, everQueued>>
kCfg == <<retryAttempts, verifyKickResult, sessionHasSend, notifyAdmins>>
kVars == <<kCfg, kick>>

cfgVars == <<enableMemberJoin, skipBotMembers, enableDelayedNicknameCheck, nicknameMatchMode,
             enableJoinScan, enableStats, batchSize>>
scVars == <<stats, scan>>
cmdVars == <<configBlacklist, cmd>>
blVars == <<blacklistSet, nicknameBlacklist, loaded, everListed, lastQuery>>
jVars == <<cfgVars, scVars, cmdVars, cmdVars, blVars, newUserNicknameCache, handlers, timers, disposed>>

vars == <<ccVars, kVars, jVars>>

----------------------------------------------------------------------------
(* Bounds *)
MaxLimit == 2        \* largest configured maxConcurrent explored
MaxTasks == 3        \* number of execute() calls explored
MaxRetry == 3        \* largest configured retryAttempts explored
MaxJoins == 2        \* number of guild-member-added events explored
MaxIdEntries == 2    \* longest config.blacklist explored
MaxPatterns == 2     \* longest config.nicknameBlacklist explored
MaxMembers == 2      \* longest member list a scan receives
MaxScans == 2        \* number of scanExistingMembers calls explored
MaxConfigured == 2   \* longest config.blacklist the commands start from
MaxCommands == 3     \* number of add / remove commands explored

Tasks == 1..MaxTasks

(* Schema defaults *)
DefaultMaxConcurrent == 3
DefaultBatchSize == 50
DefaultRetryAttempts == 3

----------------------------------------------------------------------------
(* Strings are sequences of characters; the empty sequence is the empty   *)
(* string and also stands for null (both are falsy in the code).          *)

U1 == <<"1">>
U2 == <<"2">>
Users == {U1, U2}
Guilds == {"g1", "g2"}
OkNick == <<"o", "k">>
BadNick == <<"A", "d">>
Nicks == {OkNick, BadNick}

\* config.blacklist and config.nicknameBlacklist of the join specification
JoinBlacklist == << <<"1", " ">> >>
JoinNicknameBlacklist == << <<" ", "a", "d">> >>

RECURSIVE TrimStart(_)
TrimStart(str) ==
    IF str # <<>> /\ Head(str) = " " THEN TrimStart(Tail(str)) ELSE str

RECURSIVE TrimEnd(_)
TrimEnd(str) ==
    IF str # <<>> /\ str[Len(str)] = " "
    THEN TrimEnd(SubSeq(str, 1, Len(str) - 1)) ELSE str

\* String.prototype.trim
Trim(str) == TrimEnd(TrimStart(str))

LowerChar(c) == IF c = "A" THEN "a" ELSE c
\* String.prototype.toLowerCase
ToLowerCase(str) == [k \in 1..Len(str) |-> LowerChar(str[k])]

\* String.prototype.includes
Includes(hay, needle) ==
    \E k \in 1..(Len(hay) - Len(needle) + 1) :
        SubSeq(hay, k, k + Len(needle) - 1) = needle

NonBlank(str) == str # <<>> /\ Len(Trim(str)) > 0

\* BlacklistManager.updateBlacklist: the two fields after the call
UpdateBlacklistNoTrim(blacklist, nickBlacklist) ==
    [blacklistSet |->
        {blacklist[k] : k \in {j \in 1..Len(blacklist) : NonBlank(blacklist[j])}},
     nicknameBlacklist |->
        LET kept == SelectSeq(nickBlacklist, NonBlank)
        IN [k \in 1..Len(kept) |-> Trim(kept[k])]]
UpdateBlacklist(blacklist, nickBlacklist) ==
    [blacklistSet |->
        {Trim(blacklist[k]) : k \in {j \in 1..Len(blacklist) : NonBlank(blacklist[j])}},
     nicknameBlacklist |->
        LET kept == SelectSeq(nickBlacklist, NonBlank)
        IN [k \in 1..Len(kept) |-> Trim(kept[k])]]

\* BlacklistManager.isBlacklisted
IsBlacklisted(userId) == userId \in blacklistSet

\* new RegExp(keyword, 'i') of a keyword made of literal characters, "."
\* and "(": an unclosed group is a syntax error
RegexCompiles(keyword) == \A k \in 1..Len(keyword) : keyword[k] # "("

\* regex.test(nickname): an unanchored, case-insensitive search in which "."
\* stands for any character
RegexTest(keyword, nickname) ==
    \E k \in 1..(Len(nickname) - Len(keyword) + 1) :
        \A j \in 1..Len(keyword) :
            \/ keyword[j] = "."
            \/ LowerChar(keyword[j]) = LowerChar(nickname[k + j - 1])

ContainsTest(keyword, nickname) ==
    Includes(ToLowerCase(nickname), ToLowerCase(keyword))

\* the body of the for loop of isNicknameBlacklisted for one keyword: the
\* regex test in 'regex' mode, the substring test in 'contains' mode and in
\* the catch block of a keyword that does not compile
KeywordMatches(nickname, keyword) ==
    IF nicknameMatchMode = "regex" /\ RegexCompiles(keyword)
    THEN RegexTest(keyword, nickname)
    ELSE ContainsTest(keyword, nickname)

NoMatch == [isBlacklisted |-> FALSE, matchedKeyword |-> <<>>]

\* the for loop of isNicknameBlacklisted from keyword k on
RECURSIVE KeywordLoopBackwards(_, _, _)
RECURSIVE KeywordLoop(_, _, _)
KeywordLoopBackwards(nickname, list, k) ==
    IF k > Len(list) THEN NoMatch
    ELSE IF KeywordMatches(nickname, list[Len(list) + 1 - k])
         THEN [isBlacklisted |-> TRUE, matchedKeyword |-> list[Len(list) + 1 - k]]
         ELSE KeywordLoopBackwards(nickname, list, k + 1)
KeywordLoop(nickname, list, k) ==
    IF k > Len(list) THEN NoMatch
    ELSE IF KeywordMatches(nickname, list[k])
         THEN [isBlacklisted |-> TRUE, matchedKeyword |-> list[k]]
         ELSE KeywordLoop(nickname, list, k + 1)

\* BlacklistManager.isNicknameBlacklisted(nickname, config.nicknameMatchMode)
IsNicknameBlacklisted(nickname) ==
    IF nickname = <<>> \/ Len(nicknameBlacklist) = 0
    THEN NoMatch
    ELSE KeywordLoop(nickname, nicknameBlacklist, 1)

NoQuery ==
    [kind |-> "none", userId |-> <<>>, nickname |-> <<>>,
     shouldKick |-> FALSE, kickReason |-> "", matchedKeyword |-> <<>>,
     nicknameConsulted |-> FALSE]

\* the identifiers a list of config.blacklist entries lists
Listed(blacklist) ==
    {Trim(blacklist[k]) : k \in {j \in 1..Len(blacklist) : NonBlank(blacklist[j])}}

Joins == 1..MaxJoins

NoEntry == [nickname |-> <<>>, guildId |-> "none"]
IdleHandler ==
    [pc |-> "idle", userId |-> <<>>, guildId |-> "none", nickname |-> <<>>,
     viaNull |-> FALSE]
DoneHandler == [IdleHandler EXCEPT !.pc = "done"]
NoTimer ==
    [state |-> "none", userId |-> <<>>, guildId |-> "none", nickname |-> <<>>,
     joinOutcome |-> "none", armedAfterDispose |-> FALSE, firedAfterDispose |-> FALSE,
     answer |-> [kind |-> "none", name |-> <<>>]]

\* apply(ctx, config) has run with the given lists: manager built, cache
\* empty, no event handled yet
\* the Stats object of the BlacklistManager constructor; averageScanTime
\* is kept as a fraction in lowest terms
InitialStats ==
    [totalScanned |-> 0, totalKicked |-> 0, totalFailed |-> 0, lastScanTime |-> 0,
     averageScanTime |-> [num |-> 0, den |-> 1]]

\* no scanExistingMembers call has been made
NoScan ==
    [pc |-> "idle", calls |-> 0, members |-> <<>>, pos |-> 0,
     scannedCount |-> 0, blacklistedCount |-> 0, kickedCount |-> 0, failedKickCount |-> 0,
     kickCalls |-> 0, caught |-> "none", escaped |-> FALSE, statsAtStart |-> InitialStats,
     \* history of the scans folded into the stats so far
     folded |-> 0, sumScanned |-> 0, sumKicked |-> 0, sumFailed |-> 0,
     sumTime |-> 0, latestTime |-> 0,
     \* history of this scan: the list as returned, the members classified
     listed |-> <<>>, processed |-> <<>>]

\* the schema defaults of the scan settings
ScanConfigDefault ==
    /\ enableJoinScan = TRUE
    /\ enableStats = TRUE
    /\ batchSize = DefaultBatchSize

\* no command has been handled
NoCommand ==
    [last |-> "none", qq |-> <<>>, reply |-> "", before |-> <<>>, kickCalled |-> FALSE,
     removed |-> {}, count |-> 0]

\* the state apply() builds of src/src/index.ts
Constructed(blacklist, nickBlacklist) ==
    /\ stats = InitialStats
    /\ scan = NoScan
    /\ blacklistSet = UpdateBlacklist(blacklist, nickBlacklist).blacklistSet
    /\ nicknameBlacklist = UpdateBlacklist(blacklist, nickBlacklist).nicknameBlacklist
    /\ loaded = [blacklist |-> blacklist, nicknameBlacklist |-> nickBlacklist]
    /\ everListed = Listed(blacklist)
    /\ lastQuery = NoQuery
    /\ newUserNicknameCache = [u \in Users |-> NoEntry]
    /\ handlers = [h \in Joins |-> IdleHandler]
    /\ timers = [h \in Joins |-> NoTimer]
    /\ disposed = FALSE

Applied(blacklist, nickBlacklist) ==
    /\ configBlacklist = <<>>
    /\ cmd = NoCommand
    /\ Constructed(blacklist, nickBlacklist)

\* the schema defaults: handlers enabled, empty lists
JoinQuiet ==
    /\ enableMemberJoin = TRUE
    /\ skipBotMembers = TRUE
    /\ enableDelayedNicknameCheck = TRUE
    /\ nicknameMatchMode = "contains"
    /\ ScanConfigDefault
    /\ Applied(<<>>, <<>>)

----------------------------------------------------------------------------
(* ConcurrencyController *)

\* the first half of processQueue's guard: this.running >= this.maxConcurrent
SaturatedOffByOne(r, m) == r > m
Saturated(r, m) == r >= m

\* this.queue.shift(): the task taken from the queue
DequeueLast(q) == q[Len(q)]
Dequeue(q) == Head(q)

RestAfter(q, t) == SelectSeq(q, LAMBDA x : x # t)

\* processQueue(): admits at most one queued task; the wrapper is called
\* synchronously after running++ / shift(), so the task starts in this step.
ProcessQueue(r, q, m) ==
    IF Saturated(r, m) \/ q = <<>>
    THEN [running |-> r, queue |-> q, started |-> <<>>]
    ELSE [running |-> r + 1,
          queue   |-> RestAfter(q, Dequeue(q)),
          started |-> <<Dequeue(q)>>]

\* the finally block of processQueue: this.running--; this.processQueue()
FinallyNoAdmit(r, q, m) == [running |-> r - 1, queue |-> q, started |-> <<>>]
Finally(r, q, m) == ProcessQueue(r - 1, q, m)

MarkStarted(ts, started) ==
    [x \in Tasks |-> IF started # <<>> /\ x = started[1] THEN "running" ELSE ts[x]]

\* execute(task): push the wrapper, then processQueue()
Execute(t) ==
    /\ tstate[t] = "new"
    /\ LET pq == ProcessQueue(running, Append(queue, t), maxConcurrent)
           ts == [tstate EXCEPT ![t] = "queued"]
       IN /\ running' = pq.running
          /\ queue' = pq.queue
          /\ tstate' = MarkStarted(ts, pq.started)
          /\ startSeq' = startSeq \o pq.started
          /\ everQueued' = IF pq.started = <<t>> THEN everQueued ELSE everQueued \cup {t}
    /\ submitSeq' = Append(submitSeq, t)
    /\ UNCHANGED <<maxConcurrent, kVars, jVars>>

\* a running task settles with `outcome`; the wrapper resolves or rejects the
\* promise of execute() and never throws, then the finally block runs (the
\* continuation of `await task()` is the next job of the microtask queue, so
\* no timer or event callback runs between the two)
Settle(t, outcome) ==
    /\ tstate[t] = "running"
    /\ LET fin == Finally(running, queue, maxConcurrent)
           ts  == [tstate EXCEPT ![t] = outcome]
       IN /\ running' = fin.running
          /\ queue' = fin.queue
          /\ tstate' = MarkStarted(ts, fin.started)
          /\ startSeq' = startSeq \o fin.started
    /\ UNCHANGED <<maxConcurrent, submitSeq, everQueued, kVars, jVars>>

TaskResolves(t) == Settle(t, "resolved")
TaskRejects(t) == Settle(t, "rejected")

\* new ConcurrencyController(limit)
NewController(limit) ==
    /\ maxConcurrent = limit
    /\ running = 0
    /\ queue = <<>>
    /\ tstate = [t \in Tasks |-> "new"]
    /\ submitSeq = <<>>
    /\ startSeq = <<>>
    /\ everQueued = {}

\* the locals of a kickUserWithRetry call that has not been made
NoKick ==
    [pc |-> "idle", i |-> 0, result |-> "none",
     kickCalls |-> 0, sendCalls |-> 0, warnings |-> 0,
     lastKick |-> "none", lastList |-> "none", lastMember |-> "none",
     okPresent |-> 0, kickErrors |-> 0,
     kickReturned |-> 0, verifyCalls |-> 0, verifyReturned |-> 0,
     waitsStarted |-> 0, waitsElapsed |-> 0]

\* the schema defaults (retryAttempts 3, verifyKickResult true), no call made
KickQuiet ==
    /\ retryAttempts = DefaultRetryAttempts
    /\ verifyKickResult = TRUE
    /\ sessionHasSend = TRUE
    /\ notifyAdmins = FALSE
    /\ kick = NoKick

InitCC ==
    /\ \E limit \in 0..MaxLimit : NewController(limit)
    /\ KickQuiet
    /\ JoinQuiet

NextCC ==
    \/ \E t \in Tasks : Execute(t)
    \/ \E t \in Tasks : TaskResolves(t)
    \/ \E t \in Tasks : TaskRejects(t)

SpecCC == InitCC /\ [][NextCC]_vars

\* every started task terminates (the assumption of the liveness claim)
FairCC == SpecCC /\ \A t \in Tasks : WF_vars(TaskResolves(t) \/ TaskRejects(t))

InFlight == {t \in Tasks : tstate[t] = "running"}
Settled(t) == tstate[t] \in {"resolved", "rejected"}
Submitted(t) == tstate[t] # "new"
Pos(s, x) == CHOOSE k \in 1..Len(s) : s[k] = x
InSeq(s, x) == \E k \in 1..Len(s) : s[k] = x

\* C1: the tasks started and not yet settled never exceed maxConcurrent, and
\* the running counter equals their number (and is never negative).
C1_BoundedConcurrency ==
    /\ Cardinality(InFlight) <= maxConcurrent
    /\ running = Cardinality(InFlight)
    /\ running >= 0

C1_Witness ==
    /\ maxConcurrent >= 1
    /\ running = maxConcurrent
    /\ queue # <<>>
    /\ \E t \in Tasks : tstate[t] = "rejected"

\* C2 as stated: for any configured limit, every submitted task is eventually
\* settled.
C2_Original == \A t \in Tasks : Submitted(t) ~> Settled(t)

\* C2 amended: for any configured limit of at least 1, every submitted task is
\* eventually started and settled, also when sibling tasks reject.
C2_NoTaskDropped ==
    \A t \in Tasks : (maxConcurrent >= 1 /\ Submitted(t)) ~> Settled(t)

C2_Witness ==
    /\ maxConcurrent = 1
    /\ \E a, b \in Tasks :
          /\ tstate[a] = "rejected"
          /\ b \in everQueued
          /\ Settled(b)
          /\ InSeq(startSeq, a) /\ InSeq(startSeq, b)
          /\ Pos(startSeq, a) < Pos(startSeq, b)

\* C3: if execute(A) was called before execute(B), B never starts before A
\* has started.
C3_FifoAdmission ==
    \A a, b \in Tasks :
        (InSeq(submitSeq, a) /\ InSeq(submitSeq, b)
           /\ Pos(submitSeq, a) < Pos(submitSeq, b) /\ InSeq(startSeq, b))
        => (InSeq(startSeq, a) /\ Pos(startSeq, a) < Pos(startSeq, b))

C3_Witness ==
    /\ Len(startSeq) = MaxTasks
    /\ Cardinality(everQueued) >= 2
    /\ submitSeq[1] # 1

----------------------------------------------------------------------------
(* kickUserWithRetry and verifyUserKicked *)

\* what getGuildMemberList / getGuildMember can answer about the user
ListOutcomes == {"present", "absent", "error"}
MemberOutcomes == {"member", "null", "notfound", "error"}

\* verifyUserKicked: "present" (returns true), "absent" (returns false) or
\* "throw".  The member lookup is only made when the list call failed; an
\* error whose message says 'not found' / '用户不存在' means the user is gone.
VerifySwallowsError(list, member) ==
    IF list # "error" THEN list
    ELSE IF member = "member" THEN "present" ELSE "absent"
VerifyUserKicked(list, member) ==
    IF list # "error" THEN list
    ELSE CASE member = "member"   -> "present"
           [] member = "null"     -> "absent"
           [] member = "notfound" -> "absent"
           [] member = "error"    -> "throw"

\* the loop condition  i < config.retryAttempts
LoopCondInclusive(j, n) == j <= n
LoopCond(j, n) == j < n

\* top of the for loop with i = j: either the next kickGuildMember call is
\* issued or the loop ends and the function returns false
EnterLoop(s, j) ==
    IF LoopCond(j, retryAttempts)
    THEN [s EXCEPT !.i = j, !.pc = "kicking", !.kickCalls = @ + 1,
                   !.lastKick = "pending", !.lastList = "none", !.lastMember = "none"]
    ELSE [s EXCEPT !.i = j, !.pc = "done", !.result = "false"]

\* the catch block: wait retryDelay, or on the last attempt send the
\* "踢人失败" warning; a session without send throws out of the function
CatchWithoutDelay(s) ==
    IF s.i < retryAttempts - 1
    THEN EnterLoop(s, s.i + 1)
    ELSE IF sessionHasSend
         THEN [s EXCEPT !.pc = "sendFail", !.sendCalls = @ + 1]
         ELSE [s EXCEPT !.pc = "done", !.result = "throw"]
Catch(s) ==
    IF s.i < retryAttempts - 1
    THEN [s EXCEPT !.pc = "retryWait", !.waitsStarted = @ + 1]
    ELSE IF sessionHasSend
         THEN [s EXCEPT !.pc = "sendFail", !.sendCalls = @ + 1]
         ELSE [s EXCEPT !.pc = "done", !.result = "throw"]

\* verification found the user still in the group
StillInGroup(s) ==
    IF s.i = retryAttempts - 1
    THEN IF sessionHasSend
         THEN [s EXCEPT !.pc = "sendStill", !.sendCalls = @ + 1]
         ELSE Catch(s)
    ELSE Catch(s)

\* the call of kickUserWithRetry
KickUserWithRetry ==
    /\ kick.pc = "idle"
    /\ kick' = EnterLoop(kick, 0)
    /\ UNCHANGED <<ccVars, jVars, kCfg>>

\* checkAndKickUser once shouldKick is true (lines 405-421): the admin
\* notification is sent when enabled; a session without send throws inside
\* the try block and the function goes on; then execute() runs the task,
\* which calls kickUserWithRetry
StartCheckAndKick(s) ==
    IF notifyAdmins /\ sessionHasSend
    THEN [s EXCEPT !.pc = "notifying", !.sendCalls = @ + 1]
    ELSE EnterLoop(s, 0)

CheckAndKickUser ==
    /\ kick.pc = "idle"
    /\ kick' = StartCheckAndKick(kick)
    /\ UNCHANGED <<ccVars, jVars, kCfg>>

\* the send of the admin notification settles; a failure is only logged
NotifyReturns(ok) ==
    /\ kick.pc = "notifying"
    /\ kick' = EnterLoop(kick, 0)
    /\ UNCHANGED <<ccVars, jVars, kCfg>>

\* await session.bot.kickGuildMember(...) returns or throws
KickReturns(ok) ==
    /\ kick.pc = "kicking"
    /\ LET s == [kick EXCEPT !.lastKick = IF ok THEN "ok" ELSE "error",
                             !.kickReturned = @ + 1,
                             !.kickErrors = IF ok THEN @ ELSE @ + 1]
       IN kick' = IF ~ok THEN Catch(s)
                  ELSE IF verifyKickResult THEN [s EXCEPT !.pc = "verifyWait"]
                  ELSE [s EXCEPT !.pc = "done", !.result = "true"]
    /\ UNCHANGED <<ccVars, jVars, kCfg>>

\* the verifyDelay timeout elapses; verifyUserKicked is called
VerifyDelayElapsed ==
    /\ kick.pc = "verifyWait"
    /\ kick' = [kick EXCEPT !.pc = "verifying", !.verifyCalls = @ + 1]
    /\ UNCHANGED <<ccVars, jVars, kCfg>>

\* verifyUserKicked settles
VerifyReturns(list, member) ==
    /\ kick.pc = "verifying"
    /\ (list = "error") <=> (member # "none")
    /\ LET r == VerifyUserKicked(list, member)
           s == [kick EXCEPT !.lastList = list, !.lastMember = member,
                             !.verifyReturned = @ + 1,
                             !.okPresent = IF r = "present" THEN @ + 1 ELSE @]
       IN kick' = CASE r = "absent"  -> [s EXCEPT !.pc = "done", !.result = "true"]
                    [] r = "present" -> StillInGroup(s)
                    [] r = "throw"   -> Catch(s)
    /\ UNCHANGED <<ccVars, jVars, kCfg>>

\* the send of the "仍在群里" warning (line 360) settles
SendStillReturns(ok) ==
    /\ kick.pc = "sendStill"
    /\ kick' = IF ok THEN [kick EXCEPT !.pc = "done", !.result = "false", !.warnings = @ + 1]
               ELSE Catch(kick)
    /\ UNCHANGED <<ccVars, jVars, kCfg>>

\* the send of the "踢人失败" warning (line 371) settles
SendFailReturns(ok) ==
    /\ kick.pc = "sendFail"
    /\ kick' = IF ok THEN EnterLoop([kick EXCEPT !.warnings = @ + 1], kick.i + 1)
               ELSE [kick EXCEPT !.pc = "done", !.result = "throw"]
    /\ UNCHANGED <<ccVars, jVars, kCfg>>

\* the retryDelay timeout elapses
RetryDelayElapsed ==
    /\ kick.pc = "retryWait"
    /\ kick' = EnterLoop([kick EXCEPT !.waitsElapsed = @ + 1], kick.i + 1)
    /\ UNCHANGED <<ccVars, jVars, kCfg>>

InitKick ==
    /\ NewController(DefaultMaxConcurrent)
    /\ retryAttempts \in 0..MaxRetry
    /\ verifyKickResult \in BOOLEAN
    /\ sessionHasSend \in BOOLEAN
    /\ notifyAdmins \in BOOLEAN
    /\ kick = NoKick
    /\ JoinQuiet

NextKick ==
    \/ KickUserWithRetry
    \/ CheckAndKickUser
    \/ \E ok \in BOOLEAN : NotifyReturns(ok)
    \/ \E ok \in BOOLEAN : KickReturns(ok)
    \/ VerifyDelayElapsed
    \/ \E list \in ListOutcomes, member \in MemberOutcomes \cup {"none"} :
          VerifyReturns(list, member)
    \/ \E ok \in BOOLEAN : SendStillReturns(ok)
    \/ \E ok \in BOOLEAN : SendFailReturns(ok)
    \/ RetryDelayElapsed

SpecKick == InitKick /\ [][NextKick]_vars

ConfirmedAbsent(list, member) ==
    \/ list = "absent"
    \/ list = "error" /\ member \in {"null", "notfound"}
VerificationFailed(list, member) == list = "error" /\ member = "error"

\* C4: one call of kickUserWithRetry issues at most retryAttempts
\* kickGuildMember calls, whatever the calls and the verifications answer.
C4_AtMostRetryAttempts == kick.kickCalls <= retryAttempts

C4_Witness ==
    /\ kick.pc = "done"
    /\ retryAttempts >= 2
    /\ kick.kickCalls = retryAttempts
    /\ kick.okPresent >= 1
    /\ kick.lastKick = "error"

\* C5: with verification on, when every removal call succeeded and every
\* verification found the user still present, the call ends with false and
\* exactly one warning has been sent.
C5_FailedWithOneWarning ==
    (/\ kick.pc = "done"
     /\ verifyKickResult
     /\ retryAttempts >= 1
     /\ kick.okPresent = retryAttempts)
    => (kick.result = "false" /\ kick.warnings = 1)

----------------------------------------------------------------------------
(* guild-member-added handler, delayedNicknameCheck, dispose *)

\* what kickUserWithRetry, run through concurrencyController.execute, gives
\* back to checkAndKickUser: true, false, or a rejection (SpecKick has the
\* body of the call)
KickOutcomes == {"true", "false", "throw"}

\* the classification at the top of checkAndKickUser (shouldKick)
ShouldKickIdOnly(userId, nickname) == IsBlacklisted(userId)
ShouldKick(userId, nickname) ==
    \/ IsBlacklisted(userId)
    \/ nickname # <<>> /\ IsNicknameBlacklisted(nickname).isBlacklisted

\* the condition guarding the registration of a delayed check (line 615)
RegisterCondIgnoresResult(immediateCheckResult, nickname, userId) ==
    enableDelayedNicknameCheck /\ nickname # userId
RegisterCond(immediateCheckResult, nickname, userId) ==
    ~immediateCheckResult /\ enableDelayedNicknameCheck /\ nickname # userId

\* newUserNicknameCache.set(userId, ...) and setTimeout(...): handler h arms
\* timer h, whose callback closes over userId, guildId and nickname
Register(h, hd, nickname, outcome) ==
    /\ newUserNicknameCache' =
          [newUserNicknameCache EXCEPT ![hd.userId] =
              [nickname |-> nickname, guildId |-> hd.guildId]]
    /\ timers' = [timers EXCEPT ![h] =
          [state |-> "armed", userId |-> hd.userId, guildId |-> hd.guildId,
           nickname |-> nickname, joinOutcome |-> outcome,
           armedAfterDispose |-> disposed, firedAfterDispose |-> FALSE,
           answer |-> NoTimer.answer]]

\* lines 612-627 once checkAndKickUser has returned: outcome is "nomatch"
\* (returned false at line 402), "true" or "false" (the pipeline's result)
AfterImmediateCheck(h, hd, nickname, outcome) ==
    /\ handlers' = [handlers EXCEPT ![h] = DoneHandler]
    /\ IF RegisterCond(outcome = "true", nickname, hd.userId)
       THEN Register(h, hd, nickname, outcome)
       ELSE UNCHANGED <<newUserNicknameCache, timers>>

\* a guild-member-added event is delivered (lines 561-573); the handler
\* then resolves the display name, possibly through getGuildMember / getUser
JoinEvent(h, userId, guildId, isBot) ==
    /\ ~disposed
    /\ handlers[h].pc = "idle"
    /\ \A g \in Joins : g < h => handlers[g].pc # "idle"
    /\ handlers' = [handlers EXCEPT ![h] =
          IF ~enableMemberJoin \/ (skipBotMembers /\ isBot)
          THEN DoneHandler
          ELSE [IdleHandler EXCEPT !.pc = "resolving", !.userId = userId,
                                   !.guildId = guildId]]
    /\ UNCHANGED <<ccVars, kVars, cfgVars, scVars, cmdVars, blVars, newUserNicknameCache, timers, disposed>>

\* the display name is resolved to `resolved` (empty: none found); lines
\* 601-612 up to the await of the removal pipeline
JoinResolved(h, resolved) ==
    LET hd == handlers[h]
        noName == resolved = <<>> \/ resolved = hd.userId
        nickname == IF noName THEN hd.userId ELSE resolved
    IN /\ hd.pc = "resolving"
       /\ IF noName /\ IsBlacklisted(hd.userId)
          THEN \* checkAndKickUser(session, userId, null), then return
               /\ handlers' = [handlers EXCEPT ![h] =
                     [hd EXCEPT !.pc = "kicking", !.viaNull = TRUE]]
               /\ UNCHANGED <<newUserNicknameCache, timers>>
          ELSE IF ShouldKick(hd.userId, nickname)
          THEN /\ handlers' = [handlers EXCEPT ![h] =
                     [hd EXCEPT !.pc = "kicking", !.nickname = nickname]]
               /\ UNCHANGED <<newUserNicknameCache, timers>>
          ELSE AfterImmediateCheck(h, hd, nickname, "nomatch")
       /\ UNCHANGED <<ccVars, kVars, cfgVars, scVars, cmdVars, blVars, disposed>>

\* the removal pipeline started by the handler settles
JoinKickDone(h, outcome) ==
    LET hd == handlers[h]
    IN /\ hd.pc = "kicking"
       /\ IF hd.viaNull \/ outcome = "throw"
          THEN /\ handlers' = [handlers EXCEPT ![h] = DoneHandler]
               /\ UNCHANGED <<newUserNicknameCache, timers>>
          ELSE AfterImmediateCheck(h, hd, hd.nickname, outcome)
       /\ UNCHANGED <<ccVars, kVars, cfgVars, scVars, cmdVars, blVars, disposed>>

\* newUserNicknameCache.delete(userId)
CacheDelete(userId) ==
    newUserNicknameCache' = [newUserNicknameCache EXCEPT ![userId] = NoEntry]

DoneTimer(t) == [NoTimer EXCEPT !.state = "done"]

\* the delayedCheckTime timeout of timer h elapses: delayedNicknameCheck is
\* called and issues bot.getGuildMember
TimerFires(h) ==
    /\ timers[h].state = "armed"
    /\ timers' = [timers EXCEPT ![h] =
          [@ EXCEPT !.state = "lookup", !.firedAfterDispose = disposed]]
    /\ UNCHANGED <<ccVars, kVars, cfgVars, scVars, cmdVars, blVars, newUserNicknameCache, handlers, disposed>>

\* the answers of bot.getGuildMember: it throws, returns nothing, or returns
\* a member whose current display name is the answer (empty: no name)
LookupOutcomes(userId) ==
    {[kind |-> "throw", name |-> <<>>], [kind |-> "null", name |-> <<>>]}
    \cup {[kind |-> "member", name |-> n] : n \in Nicks \cup {<<>>, userId}}

\* the nickname-changed test of delayedNicknameCheck (line 448)
NicknameChangedIgnoresOriginal(current, original, userId) ==
    current # <<>> /\ current # userId
NicknameChanged(current, original, userId) ==
    current # <<>> /\ current # original /\ current # userId

\* bot.getGuildMember settles in delayedNicknameCheck (lines 438-466)
RecheckLookupReturns(h, answer) ==
    LET t == timers[h]
    IN /\ t.state = "lookup"
       /\ answer \in LookupOutcomes(t.userId)
       /\ IF /\ answer.kind = "member"
             /\ NicknameChanged(answer.name, t.nickname, t.userId)
             /\ IsNicknameBlacklisted(answer.name).isBlacklisted
          THEN \* checkAndKickUser(kickSession, userId, currentNickname)
               /\ timers' = [timers EXCEPT ![h] = [t EXCEPT !.state = "kicking"]]
               /\ UNCHANGED newUserNicknameCache
          ELSE /\ timers' = [timers EXCEPT ![h] = DoneTimer(t)]
               /\ CacheDelete(t.userId)
       /\ UNCHANGED <<ccVars, kVars, cfgVars, scVars, cmdVars, blVars, handlers, disposed>>

\* the removal pipeline started by delayedNicknameCheck settles; the cache
\* entry is deleted on return (line 461) and on rejection (line 465)
RecheckKickDone(h, outcome) ==
    LET t == timers[h]
    IN /\ t.state = "kicking"
       /\ timers' = [timers EXCEPT ![h] = DoneTimer(t)]
       /\ CacheDelete(t.userId)
       /\ UNCHANGED <<ccVars, kVars, cfgVars, scVars, cmdVars, blVars, handlers, disposed>>

\* the dispose event (lines 641-644): the reload interval is cleared and the
\* cache emptied; no clearTimeout is called
Dispose ==
    /\ ~disposed
    /\ disposed' = TRUE
    /\ newUserNicknameCache' = [u \in Users |-> NoEntry]
    /\ UNCHANGED <<ccVars, kVars, cfgVars, scVars, cmdVars, blVars, handlers, timers>>

InitJoin ==
    /\ NewController(DefaultMaxConcurrent)
    /\ KickQuiet
    /\ enableMemberJoin \in BOOLEAN
    /\ skipBotMembers \in BOOLEAN
    /\ enableDelayedNicknameCheck \in BOOLEAN
    /\ nicknameMatchMode = "contains"
    /\ ScanConfigDefault
    /\ Applied(JoinBlacklist, JoinNicknameBlacklist)

NextJoin ==
    \* guild names are interchangeable: the first event is taken to come
    \* from the first guild
    \/ \E h \in Joins, u \in Users, isBot \in BOOLEAN,
          g \in IF \A j \in Joins : handlers[j].pc = "idle" THEN {"g1"} ELSE Guilds :
          JoinEvent(h, u, g, isBot)
    \/ \E h \in Joins, resolved \in Nicks \cup Users \cup {<<>>} :
          JoinResolved(h, resolved)
    \/ \E h \in Joins, outcome \in KickOutcomes : JoinKickDone(h, outcome)
    \/ \E h \in Joins : TimerFires(h)
    \/ \E h \in Joins, answer \in UNION {LookupOutcomes(u) : u \in Users} :
          RecheckLookupReturns(h, answer)
    \/ \E h \in Joins, outcome \in KickOutcomes : RecheckKickDone(h, outcome)
    \/ Dispose

SpecJoin == InitJoin /\ [][NextJoin]_vars

LiveTimer(h) == timers[h].state \in {"armed", "lookup", "kicking"}

\* C7: registering a recheck on join replaces only an entry of the same user
\* in the same guild; the entry of that user id in another guild is never
\* replaced by it.
C7_StoreKeyedPerGuild ==
    [][\A u \in Users :
          (/\ newUserNicknameCache[u] # NoEntry
           /\ newUserNicknameCache'[u] # NoEntry
           /\ newUserNicknameCache'[u] # newUserNicknameCache[u])
          => newUserNicknameCache'[u].guildId = newUserNicknameCache[u].guildId]_vars

\* C8: each user of a guild has at most one live recheck timer: a later join
\* of the same user supersedes the timer armed by the earlier join.
C8_OneLiveTimerPerUser ==
    \A a, b \in Joins :
        (/\ timers[a].state = "armed" /\ timers[b].state = "armed"
         /\ timers[a].userId = timers[b].userId
         /\ timers[a].guildId = timers[b].guildId)
        => a = b

\* C9: after dispose no delayed recheck is started by a timer that was armed
\* before dispose (no membership lookup, no removal attempt).
C9_NoRecheckAfterDispose ==
    \A h \in Joins :
        timers[h].state \in {"lookup", "kicking"}
        => ~(timers[h].firedAfterDispose /\ ~timers[h].armedAfterDispose)

\* C10 as stated: a recheck is registered only for a join that did not match,
\* with delayed checking enabled and a display name other than the identifier.
C10_Original ==
    \A h \in Joins :
        LiveTimer(h) =>
            /\ timers[h].joinOutcome = "nomatch"
            /\ enableDelayedNicknameCheck
            /\ timers[h].nickname # timers[h].userId

\* C10 amended: a recheck is registered only for a join whose immediate check
\* returned false (no match, or a match whose removal failed), with delayed
\* checking enabled and a display name other than the identifier.
C10_RegisteredOnlyIfNotKicked ==
    \A h \in Joins :
        LiveTimer(h) =>
            /\ timers[h].joinOutcome \in {"nomatch", "false"}
            /\ enableDelayedNicknameCheck
            /\ timers[h].nickname # timers[h].userId

C10_Witness ==
    \E a, b \in Joins :
        /\ timers[a].state = "armed" /\ timers[a].joinOutcome = "false"
        /\ timers[b].state = "armed" /\ timers[b].joinOutcome = "nomatch"
        /\ newUserNicknameCache[timers[b].userId].nickname = timers[b].nickname

----------------------------------------------------------------------------
(* One delayed recheck with its removal pipeline: the join of one user,   *)
(* its timer, delayedNicknameCheck, and the checkAndKickUser /            *)
(* kickUserWithRetry call made with kickSession = {guildId, userId, bot}, *)
(* which has no send method.                                              *)

\* config.nicknameBlacklist of the recheck specification: the second keyword
\* occurs in the identifier of user "2"
RecheckNicknameBlacklist == << <<" ", "a", "d">>, <<"2">> >>

\* the timer's record once delayedNicknameCheck has returned
FinishedTimer(t, answer) == [t EXCEPT !.state = "done", !.answer = answer]

\* bot.getGuildMember settles in delayedNicknameCheck (lines 438-466); on a
\* changed, blacklisted nickname checkAndKickUser runs up to its first await
RecheckLookupRuns(h, answer) ==
    LET t == timers[h]
    IN /\ t.state = "lookup"
       /\ kick.pc = "idle"
       /\ answer \in LookupOutcomes(t.userId)
       /\ IF /\ answer.kind = "member"
             /\ NicknameChanged(answer.name, t.nickname, t.userId)
             /\ IsNicknameBlacklisted(answer.name).isBlacklisted
             /\ ShouldKick(t.userId, answer.name)
          THEN /\ timers' = [timers EXCEPT ![h] =
                     [t EXCEPT !.state = "kicking", !.answer = answer]]
               /\ kick' = StartCheckAndKick(kick)
               /\ UNCHANGED newUserNicknameCache
          ELSE /\ timers' = [timers EXCEPT ![h] = FinishedTimer(t, answer)]
               /\ CacheDelete(t.userId)
               /\ UNCHANGED kick
       /\ UNCHANGED <<ccVars, kCfg, cfgVars, scVars, cmdVars, blVars, handlers, disposed>>

\* checkAndKickUser settles in delayedNicknameCheck: line 461 after a
\* result, line 465 after a rejection
RecheckPipelineSettles(h) ==
    LET t == timers[h]
    IN /\ t.state = "kicking"
       /\ kick.pc = "done"
       /\ timers' = [timers EXCEPT ![h] = FinishedTimer(t, t.answer)]
       /\ CacheDelete(t.userId)
       /\ UNCHANGED <<ccVars, kVars, cfgVars, scVars, cmdVars, blVars, handlers, disposed>>

InitRecheck ==
    /\ NewController(DefaultMaxConcurrent)
    /\ retryAttempts \in 0..MaxRetry
    /\ verifyKickResult \in BOOLEAN
    /\ sessionHasSend = FALSE
    /\ notifyAdmins \in BOOLEAN
    /\ kick = NoKick
    /\ enableMemberJoin = TRUE
    /\ skipBotMembers = TRUE
    /\ enableDelayedNicknameCheck = TRUE
    /\ nicknameMatchMode = "contains"
    /\ ScanConfigDefault
    /\ Applied(JoinBlacklist, RecheckNicknameBlacklist)

NextRecheck ==
    \/ \E u \in Users, g \in Guilds, isBot \in BOOLEAN : JoinEvent(1, u, g, isBot)
    \/ \E resolved \in Nicks \cup Users \cup {<<>>} : JoinResolved(1, resolved)
    \/ \E outcome \in KickOutcomes : JoinKickDone(1, outcome)
    \/ TimerFires(1)
    \/ \E answer \in UNION {LookupOutcomes(u) : u \in Users} : RecheckLookupRuns(1, answer)
    \/ \E ok \in BOOLEAN : KickReturns(ok)
    \/ VerifyDelayElapsed
    \/ \E list \in ListOutcomes, member \in MemberOutcomes \cup {"none"} :
          VerifyReturns(list, member)
    \/ RetryDelayElapsed
    \/ RecheckPipelineSettles(1)
    \/ Dispose

SpecRecheck == InitRecheck /\ [][NextRecheck]_vars

\* the premise of C11: no match at join, and the member's current nickname
\* differs from the recorded one and matches a pattern
RenamedToBlacklisted(t) ==
    /\ t.joinOutcome = "nomatch"
    /\ t.answer.kind = "member"
    /\ t.answer.name # <<>>
    /\ t.answer.name # t.nickname
    /\ IsNicknameBlacklisted(t.answer.name).isBlacklisted

\* the recheck of t has entered the removal pipeline, has issued a removal
\* call, and has discarded the store entry once it completed
RecheckRemoves(t) ==
    /\ t.state \in {"kicking", "done"}
    /\ kick.pc # "idle"
    /\ kick.kickCalls >= 1
    /\ t.state = "done" => (kick.pc = "done" /\ newUserNicknameCache[t.userId] = NoEntry)

\* C11 as stated: after no match at join, a current nickname that differs
\* from the recorded one and matches a pattern makes the recheck trigger the
\* removal pipeline, and the store entry is discarded when it completes.
C11_Original ==
    (retryAttempts >= 1 /\ RenamedToBlacklisted(timers[1])) => RecheckRemoves(timers[1])

\* C11 amended: the same, provided the current nickname is not the user's
\* bare identifier (and at least one attempt is configured).
C11_RenameTriggersRemoval ==
    (/\ retryAttempts >= 1
     /\ RenamedToBlacklisted(timers[1])
     /\ timers[1].answer.name # timers[1].userId)
    => RecheckRemoves(timers[1])

C11_Witness ==
    /\ RenamedToBlacklisted(timers[1])
    /\ timers[1].answer.name = BadNick
    /\ timers[1].state = "done"
    /\ kick.result = "true"
    /\ kick.kickCalls >= 2

\* C12: a recheck whose membership lookup reports the user absent or fails
\* issues no removal call, sends no message and clears the store entry; a
\* recheck that finds the nickname unchanged or not matching issues no
\* removal call.
C12_NoRemovalWithoutRename ==
    LET t == timers[1]
    IN /\ (t.state = "done" /\ t.answer.kind \in {"null", "throw"})
            => /\ kick.kickCalls = 0
               /\ kick.sendCalls = 0
               /\ kick.pc = "idle"
               /\ newUserNicknameCache[t.userId] = NoEntry
       /\ (/\ t.answer.kind = "member"
           /\ \/ t.answer.name = t.nickname
              \/ ~IsNicknameBlacklisted(t.answer.name).isBlacklisted)
            => (kick.kickCalls = 0 /\ kick.pc = "idle")

C12_Witness ==
    /\ timers[1].state = "done"
    /\ timers[1].answer.kind = "throw"
    /\ timers[1].joinOutcome = "nomatch"
    /\ kick.kickCalls = 0

----------------------------------------------------------------------------
(* Send failures in the removal pipeline (SpecKick) *)

\* C13: a failing send never propagates: checkAndKickUser (whose result is
\* that of kickUserWithRetry, passed through execute) ends with true or
\* false, never with a rejection.
C13_SendFailureNeverPropagates ==
    kick.pc = "done" => kick.result \in {"true", "false"}

\* C14: when the removal call itself failed on every attempt, exactly one
\* warning has been sent when the pipeline ends, for every trigger (a
\* session with send: join or scan; without: delayed recheck).
C14_OneWarningAfterLastAttempt ==
    (/\ kick.pc = "done"
     /\ retryAttempts >= 1
     /\ kick.kickErrors = retryAttempts)
    => kick.warnings = 1


\* C21: the attempts of one kickUserWithRetry call are sequential: at most one
\* kickGuildMember call is in flight; when a further call is issued, every
\* earlier call has returned, every earlier successful call has had its
\* verification (when enabled) answered, and one retryDelay wait per earlier
\* attempt has elapsed; no retryDelay wait is started after the last attempt.
C21_AttemptsSequential ==
    /\ kick.kickCalls - kick.kickReturned \in {0, 1}
    /\ kick.verifyCalls - kick.verifyReturned \in {0, 1}
    /\ kick.pc = "kicking" =>
          /\ kick.kickReturned = kick.kickCalls - 1
          /\ kick.verifyReturned = kick.verifyCalls
          /\ verifyKickResult => kick.verifyReturned = kick.kickReturned - kick.kickErrors
          /\ kick.waitsStarted = kick.kickCalls - 1
          /\ kick.waitsElapsed = kick.kickCalls - 1
    /\ kick.pc = "retryWait" => kick.kickCalls < retryAttempts
    /\ kick.pc = "done" => kick.waitsStarted < kick.kickCalls \/ kick.kickCalls = 0

C21_Witness ==
    /\ kick.pc = "kicking"
    /\ kick.kickCalls = 3
    /\ kick.waitsElapsed = 2
    /\ kick.verifyReturned = 1
    /\ kick.kickErrors = 1

----------------------------------------------------------------------------
(* The blacklist manager under reloads and queries *)

\* entries of config.blacklist: blank, an identifier with whitespace around
\* it, another identifier
IdEntries == {<<" ">>, <<" ", "1", " ">>, <<"2">>}
\* entries of config.nicknameBlacklist: blank, a keyword with whitespace, a
\* regex wildcard, a keyword that is not a valid regex
PatternEntries == {<<" ">>, <<" ", "A">>, <<".">>, <<"(">>}
\* the identifiers and nicknames that are classified
QueryIds == {<<"1">>, <<"2">>, <<"1", " ">>}
QueryNicks == {<<>>, <<"a">>, <<"(">>, <<"a", "(">>}

SeqsUpTo(S, n) == UNION {[1..k -> S] : k \in 0..n}

\* the setInterval callback (lines 275-277): updateBlacklist runs to its end
\* without an await, so both fields are replaced in one step
IntervalCallbackClearsOnly(blacklist, nickBlacklist) ==
    [blacklistSet |-> {},
     nicknameBlacklist |-> UpdateBlacklist(blacklist, nickBlacklist).nicknameBlacklist]
IntervalCallback(blacklist, nickBlacklist) == UpdateBlacklist(blacklist, nickBlacklist)

\* the reload interval fires; config.blacklist and config.nicknameBlacklist
\* are then `blacklist` and `nickBlacklist`
ReloadBlacklist(blacklist, nickBlacklist) ==
    /\ lastQuery = NoQuery
    /\ blacklistSet' = IntervalCallback(blacklist, nickBlacklist).blacklistSet
    /\ nicknameBlacklist' = IntervalCallback(blacklist, nickBlacklist).nicknameBlacklist
    /\ loaded' = [blacklist |-> blacklist, nicknameBlacklist |-> nickBlacklist]
    /\ everListed' = everListed \cup Listed(blacklist)
    /\ UNCHANGED <<ccVars, kVars, cfgVars, scVars, cmdVars, lastQuery, newUserNicknameCache,
                   handlers, timers, disposed>>

\* lines 382-399 of checkAndKickUser: shouldKick, kickReason, and whether
\* isNicknameBlacklisted was called
CheckAndKickClassifyNicknameFirst(userId, nickname) ==
    LET nc == IsNicknameBlacklisted(nickname)
    IN IF nickname # <<>> /\ nc.isBlacklisted
       THEN [shouldKick |-> TRUE, kickReason |-> "nickname blacklist",
             matchedKeyword |-> nc.matchedKeyword, nicknameConsulted |-> TRUE]
       ELSE [shouldKick |-> IsBlacklisted(userId),
             kickReason |-> IF IsBlacklisted(userId) THEN "QQ blacklist" ELSE "",
             matchedKeyword |-> <<>>, nicknameConsulted |-> nickname # <<>>]
CheckAndKickClassify(userId, nickname) ==
    LET nc == IsNicknameBlacklisted(nickname)
    IN IF IsBlacklisted(userId)
       THEN [shouldKick |-> TRUE, kickReason |-> "QQ blacklist",
             matchedKeyword |-> <<>>, nicknameConsulted |-> FALSE]
       ELSE IF nickname # <<>>
       THEN [shouldKick |-> nc.isBlacklisted,
             kickReason |-> IF nc.isBlacklisted THEN "nickname blacklist" ELSE "",
             matchedKeyword |-> nc.matchedKeyword, nicknameConsulted |-> TRUE]
       ELSE [shouldKick |-> FALSE, kickReason |-> "",
             matchedKeyword |-> <<>>, nicknameConsulted |-> FALSE]

\* lines 500-513 of scanExistingMembers: the same test as an if / else-if
ScanClassify(userId, nickname) ==
    LET nc == IsNicknameBlacklisted(nickname)
    IN IF IsBlacklisted(userId)
       THEN [shouldKick |-> TRUE, kickReason |-> "QQ blacklist",
             matchedKeyword |-> <<>>, nicknameConsulted |-> FALSE]
       ELSE IF nickname # <<>>
       THEN [shouldKick |-> nc.isBlacklisted,
             kickReason |-> IF nc.isBlacklisted THEN "nickname blacklist" ELSE "",
             matchedKeyword |-> nc.matchedKeyword, nicknameConsulted |-> TRUE]
       ELSE [shouldKick |-> FALSE, kickReason |-> "",
             matchedKeyword |-> <<>>, nicknameConsulted |-> FALSE]

QueryRecord(kind, userId, nickname, r) ==
    [kind |-> kind, userId |-> userId, nickname |-> nickname,
     shouldKick |-> r.shouldKick, kickReason |-> r.kickReason,
     matchedKeyword |-> r.matchedKeyword, nicknameConsulted |-> r.nicknameConsulted]

MatchUnchanged ==
    UNCHANGED <<ccVars, kVars, cfgVars, scVars, cmdVars, blacklistSet, nicknameBlacklist, loaded,
                everListed, newUserNicknameCache, handlers, timers, disposed>>

\* blacklistManager.isBlacklisted(userId) is called
QueryIdentifier(userId) ==
    /\ lastQuery = NoQuery
    /\ lastQuery' = QueryRecord("identifier", userId, <<>>,
          [shouldKick |-> IsBlacklisted(userId), kickReason |-> "",
           matchedKeyword |-> <<>>, nicknameConsulted |-> FALSE])
    /\ MatchUnchanged

\* blacklistManager.isNicknameBlacklisted(nickname, mode) is called
QueryNickname(nickname) ==
    /\ lastQuery = NoQuery
    /\ lastQuery' = QueryRecord("nickname", <<>>, nickname,
          [shouldKick |-> IsNicknameBlacklisted(nickname).isBlacklisted, kickReason |-> "",
           matchedKeyword |-> IsNicknameBlacklisted(nickname).matchedKeyword,
           nicknameConsulted |-> TRUE])
    /\ MatchUnchanged

\* checkAndKickUser classifies a candidate
ClassifyInCheckAndKick(userId, nickname) ==
    /\ lastQuery = NoQuery
    /\ lastQuery' = QueryRecord("checkAndKickUser", userId, nickname,
                                CheckAndKickClassify(userId, nickname))
    /\ MatchUnchanged

\* scanExistingMembers classifies a member
ClassifyInScan(userId, nickname) ==
    /\ lastQuery = NoQuery
    /\ lastQuery' = QueryRecord("scan", userId, nickname, ScanClassify(userId, nickname))
    /\ MatchUnchanged

\* the caller has used the result of the classification
QueryReturns ==
    /\ lastQuery # NoQuery
    /\ lastQuery' = NoQuery
    /\ MatchUnchanged

InitMatch ==
    /\ NewController(DefaultMaxConcurrent)
    /\ KickQuiet
    /\ enableMemberJoin = TRUE
    /\ skipBotMembers = TRUE
    /\ enableDelayedNicknameCheck = TRUE
    /\ nicknameMatchMode \in {"contains", "regex"}
    /\ ScanConfigDefault
    /\ \E bl \in SeqsUpTo(IdEntries, MaxIdEntries),
          nbl \in SeqsUpTo(PatternEntries, MaxPatterns) : Applied(bl, nbl)

NextMatch ==
    \* between two ticks of the interval one of the two lists was edited; an
    \* edit of both is two of these steps
    \/ \E bl \in SeqsUpTo(IdEntries, MaxIdEntries) :
          ReloadBlacklist(bl, loaded.nicknameBlacklist)
    \/ \E nbl \in SeqsUpTo(PatternEntries, MaxPatterns) :
          ReloadBlacklist(loaded.blacklist, nbl)
    \/ \E u \in QueryIds : QueryIdentifier(u)
    \/ \E n \in QueryNicks : QueryNickname(n)
    \/ \E u \in QueryIds, n \in QueryNicks : ClassifyInCheckAndKick(u, n)
    \/ \E u \in QueryIds, n \in QueryNicks : ClassifyInScan(u, n)
    \/ QueryReturns

SpecMatch == InitMatch /\ [][NextMatch]_vars

\* the positions of the most recently loaded pattern list whose non-blank,
\* trimmed entry matches the nickname
MatchingPositions(nickname) ==
    {k \in 1..Len(loaded.nicknameBlacklist) :
        /\ NonBlank(loaded.nicknameBlacklist[k])
        /\ KeywordMatches(nickname, Trim(loaded.nicknameBlacklist[k]))}

\* C15: a candidate whose identifier is listed is classified by the
\* identifier blacklist and the nickname patterns are not consulted, also
\* when its nickname matches a pattern, in checkAndKickUser and in the scan.
C15_IdentifierFirst ==
    (/\ lastQuery.kind \in {"checkAndKickUser", "scan"}
     /\ lastQuery.userId \in Listed(loaded.blacklist))
    => /\ lastQuery.shouldKick
       /\ lastQuery.kickReason = "QQ blacklist"
       /\ ~lastQuery.nicknameConsulted

C15_Witness ==
    /\ lastQuery.kind = "checkAndKickUser"
    /\ lastQuery.userId \in Listed(loaded.blacklist)
    /\ MatchingPositions(lastQuery.nickname) # {}
    /\ lastQuery.kickReason = "QQ blacklist"

\* C16: isBlacklisted(id) is true iff id is the trimmed form of a non-blank
\* entry of the most recently loaded list.
C16_MostRecentLoad ==
    lastQuery.kind = "identifier"
    => (lastQuery.shouldKick <=> lastQuery.userId \in Listed(loaded.blacklist))

C16_Witness ==
    /\ lastQuery.kind = "identifier"
    /\ lastQuery.userId = <<"2">>
    /\ ~lastQuery.shouldKick
    /\ <<"2">> \in everListed
    /\ loaded.blacklist = << <<" ", "1", " ">>, <<" ", "1", " ">> >>
    /\ blacklistSet = {<<"1">>}

\* C17: isNicknameBlacklisted reports the first pattern in configuration
\* order that matches, and no match iff no loaded pattern matches (never for
\* an empty nickname).
C17_FirstMatchWins ==
    lastQuery.kind = "nickname"
    => LET hits == MatchingPositions(lastQuery.nickname)
       IN /\ lastQuery.shouldKick <=> (lastQuery.nickname # <<>> /\ hits # {})
          /\ lastQuery.shouldKick =>
                lastQuery.matchedKeyword =
                   Trim(loaded.nicknameBlacklist[CHOOSE k \in hits : \A j \in hits : k <= j])

C17_Witness ==
    /\ lastQuery.kind = "nickname"
    /\ nicknameMatchMode = "regex"
    /\ Cardinality(MatchingPositions(lastQuery.nickname)) = 2
    /\ loaded.nicknameBlacklist = << <<"(">>, <<".">> >>
    /\ lastQuery.matchedKeyword = <<"(">>

\* the pattern list a load leaves: the non-blank entries, trimmed, in order
RECURSIVE LoadedPatterns(_)
LoadedPatterns(list) ==
    IF list = <<>> THEN <<>>
    ELSE IF NonBlank(Head(list)) THEN <<Trim(Head(list))>> \o LoadedPatterns(Tail(list))
         ELSE LoadedPatterns(Tail(list))

\* C18: whenever a query can run, the index is the complete image of the
\* lists of one load (the latest), never emptied or partly rebuilt.
C18_CompleteSnapshot ==
    /\ blacklistSet = Listed(loaded.blacklist)
    /\ nicknameBlacklist = LoadedPatterns(loaded.nicknameBlacklist)

C18_Witness ==
    /\ lastQuery.kind = "scan"
    /\ everListed # Listed(loaded.blacklist)
    /\ blacklistSet # {}
    /\ Len(nicknameBlacklist) = 1
    /\ Len(loaded.nicknameBlacklist) = 2

----------------------------------------------------------------------------
(* scanExistingMembers and the statistics *)

\* members a listing can return: a listed identifier, a nickname that matches
\* a pattern, a clean member, a bot with a listed identifier
ListedMember == [id |-> U1, nickname |-> OkNick, isBot |-> FALSE]
BadNickMember == [id |-> U2, nickname |-> BadNick, isBot |-> FALSE]
CleanMember == [id |-> U2, nickname |-> OkNick, isBot |-> FALSE]
BotMember == [id |-> U1, nickname |-> OkNick, isBot |-> TRUE]
ScanMembers == {ListedMember, BadNickMember, CleanMember, BotMember}
\* values of Date.now() - startTime, in units of 10 ms
ScanTimes == {1, 3}
BatchSizes == {1, 2}
\* value of config.maxConcurrent, the modulus of the kickDelay pause: with 2
\* the pause is taken after some members and not after others
ScanLimits == {2}

RECURSIVE GCD(_, _)
GCD(a, b) == IF b = 0 THEN a ELSE GCD(b, a % b)
Fraction(num, den) ==
    IF num = 0 THEN [num |-> 0, den |-> 1]
    ELSE [num |-> num \div GCD(num, den), den |-> den \div GCD(num, den)]

\* BlacklistManager.updateStats; totalScans is the fraction p / q
UpdateStats(s, scanned, kicked, failed, scanTime) ==
    LET total == s.totalScanned + scanned
        divisor == IF scanned > 1 THEN scanned ELSE 1
        p == IF total > divisor THEN total ELSE 1
        q == IF total > divisor THEN divisor ELSE 1
        avg == s.averageScanTime
    IN [totalScanned |-> total,
        totalKicked |-> s.totalKicked + kicked,
        totalFailed |-> s.totalFailed + failed,
        lastScanTime |-> scanTime,
        averageScanTime |-> Fraction(avg.num * (p - q) + scanTime * avg.den * q, avg.den * p)]

\* config.skipBotMembers ? memberList.filter(member => !member.user.isBot) : memberList
NotBot(member) == ~member.isBot
FilteredMembersKeepsBots(memberList) == memberList
FilteredMembers(memberList) ==
    IF skipBotMembers THEN SelectSeq(memberList, NotBot) ELSE memberList

\* the catch block of scanExistingMembers: the error is logged, not rethrown
ScanCatchThenStats(sc, what) == [sc EXCEPT !.pc = "finishing", !.caught = what]
ScanCatch(sc, what) == [sc EXCEPT !.pc = "done", !.caught = what, !.escaped = FALSE]

\* the scan loop from member sc.pos on, up to its next await or its end
RECURSIVE ScanLoop(_)
RECURSIVE AfterBatchMember(_)

\* the end of the inner loop body for member sc.pos: the pause between
\* batches (line 529) is taken after the last member of a batch that is not
\* the last batch
AfterBatchMember(sc) ==
    IF sc.pos % batchSize = 0 /\ sc.pos < Len(sc.members)
    THEN [sc EXCEPT !.pc = "batchDelay"]
    ELSE ScanLoop([sc EXCEPT !.pos = sc.pos + 1])

\* lines 524-526: the kickDelay pause
AfterKick(sc) ==
    IF sc.blacklistedCount > 0 /\ sc.scannedCount % maxConcurrent = 0
    THEN [sc EXCEPT !.pc = "kickDelay"]
    ELSE AfterBatchMember(sc)

ScanLoop(sc) ==
    IF sc.pos > Len(sc.members) THEN [sc EXCEPT !.pc = "finishing"]
    ELSE LET member == sc.members[sc.pos]
             counted == [sc EXCEPT !.scannedCount = sc.scannedCount + 1,
                                   !.processed = Append(sc.processed, member)]
         IN IF ScanClassify(member.id, member.nickname).shouldKick
            THEN [counted EXCEPT !.blacklistedCount = sc.blacklistedCount + 1,
                                 !.kickCalls = sc.kickCalls + 1,
                                 !.pc = "kicking"]
            ELSE AfterKick(counted)

\* the scan runs on from `sc` to its next await; at the end of the loop the
\* duration is taken and, with enableStats, folded into the stats
ScanContinues(sc, scanTime) ==
    IF sc.pc = "finishing"
    THEN /\ scan' = IF enableStats
                    THEN [sc EXCEPT !.pc = "done",
                                    !.folded = @ + 1,
                                    !.sumScanned = @ + sc.scannedCount,
                                    !.sumKicked = @ + sc.kickedCount,
                                    !.sumFailed = @ + sc.failedKickCount,
                                    !.sumTime = @ + scanTime,
                                    !.latestTime = scanTime]
                    ELSE [sc EXCEPT !.pc = "done"]
         /\ stats' = IF enableStats
                     THEN UpdateStats(stats, sc.scannedCount, sc.kickedCount,
                                      sc.failedKickCount, scanTime)
                     ELSE stats
    ELSE /\ scan' = sc
         /\ stats' = stats

ScanUnchanged ==
    UNCHANGED <<ccVars, kVars, cfgVars, cmdVars, blVars, newUserNicknameCache,
                handlers, timers, disposed>>

\* scanExistingMembers(session) is called; without enableJoinScan it returns
\* at once, otherwise it awaits getGuildMemberList
ScanCalled ==
    /\ scan.pc \in {"idle", "done"}
    /\ scan.calls < MaxScans
    /\ scan' = [NoScan EXCEPT !.calls = scan.calls + 1,
                              !.folded = scan.folded,
                              !.sumScanned = scan.sumScanned,
                              !.sumKicked = scan.sumKicked,
                              !.sumFailed = scan.sumFailed,
                              !.sumTime = scan.sumTime,
                              !.latestTime = scan.latestTime,
                              !.statsAtStart = stats,
                              !.pc = IF enableJoinScan THEN "listing" ELSE "done"]
    /\ UNCHANGED stats
    /\ ScanUnchanged

\* getGuildMemberList rejects
ListingThrows ==
    /\ scan.pc = "listing"
    /\ \E scanTime \in ScanTimes : ScanContinues(ScanCatch(scan, "listing"), scanTime)
    /\ ScanUnchanged

\* getGuildMemberList resolves with memberList
ListingReturns(memberList) ==
    /\ scan.pc = "listing"
    /\ \E scanTime \in ScanTimes :
          ScanContinues(ScanLoop([scan EXCEPT !.members = FilteredMembers(memberList),
                                              !.listed = memberList,
                                              !.pos = 1]), scanTime)
    /\ ScanUnchanged

\* await checkAndKickUser(session, userId, nickname) settles: true, false, or
\* a rejection, which lands in the catch block of the scan
ScanKickSettles(outcome) ==
    /\ scan.pc = "kicking"
    /\ \E scanTime \in ScanTimes :
          ScanContinues(
             CASE outcome = "true" ->
                     AfterKick([scan EXCEPT !.kickedCount = scan.kickedCount + 1])
               [] outcome = "false" ->
                     AfterKick([scan EXCEPT !.failedKickCount = scan.failedKickCount + 1])
               [] OTHER -> ScanCatch(scan, "kick"),
             scanTime)
    /\ ScanUnchanged

\* the kickDelay timeout elapses
KickDelayElapsed ==
    /\ scan.pc = "kickDelay"
    /\ \E scanTime \in ScanTimes : ScanContinues(AfterBatchMember(scan), scanTime)
    /\ ScanUnchanged

\* the pause between two batches elapses
BatchDelayElapsed ==
    /\ scan.pc = "batchDelay"
    /\ \E scanTime \in ScanTimes :
          ScanContinues(ScanLoop([scan EXCEPT !.pos = scan.pos + 1]), scanTime)
    /\ ScanUnchanged

InitScan ==
    /\ \E limit \in ScanLimits : NewController(limit)
    /\ KickQuiet
    /\ enableMemberJoin = TRUE
    /\ skipBotMembers \in BOOLEAN
    /\ enableDelayedNicknameCheck = TRUE
    /\ nicknameMatchMode = "contains"
    /\ enableJoinScan \in BOOLEAN
    /\ enableStats \in BOOLEAN
    /\ batchSize \in BatchSizes
    /\ Applied(JoinBlacklist, JoinNicknameBlacklist)

NextScan ==
    \/ ScanCalled
    \/ ListingThrows
    \/ \E memberList \in SeqsUpTo(ScanMembers, MaxMembers) : ListingReturns(memberList)
    \/ \E outcome \in KickOutcomes : ScanKickSettles(outcome)
    \/ KickDelayElapsed
    \/ BatchDelayElapsed

SpecScan == InitScan /\ [][NextScan]_vars

\* C19: a scan whose listing call throws ends in its catch block with the
\* stats as they were when it started and without a checkAndKickUser call,
\* and the error does not leave scanExistingMembers.
C19_ListingFailureAborts ==
    (scan.pc = "done" /\ scan.caught = "listing")
    => /\ stats = scan.statsAtStart
       /\ scan.kickCalls = 0
       /\ ~scan.escaped

C19_Witness ==
    /\ scan.pc = "done"
    /\ scan.caught = "listing"
    /\ enableStats
    /\ stats.totalKicked > 0


\* C22: with stats enabled, the three totals are the sums of the per-scan
\* counts of the completed scans, lastScanTime is the duration of the latest
\* one, and averageScanTime is the arithmetic mean of their durations.
C22_StatsAreSumsAndMean ==
    (enableStats /\ scan.folded > 0)
    => /\ stats.totalScanned = scan.sumScanned
       /\ stats.totalKicked = scan.sumKicked
       /\ stats.totalFailed = scan.sumFailed
       /\ stats.lastScanTime = scan.latestTime
       /\ stats.averageScanTime = Fraction(scan.sumTime, scan.folded)


\* the members a scan has to process: the listing without the members
\* flagged as bots when skipBotMembers is set
RECURSIVE ExpectedMembers(_)
ExpectedMembers(list) ==
    IF list = <<>> THEN <<>>
    ELSE IF skipBotMembers /\ Head(list).isBot THEN ExpectedMembers(Tail(list))
         ELSE <<Head(list)>> \o ExpectedMembers(Tail(list))

\* C23: a scan classifies the listed members in listing order, without the
\* bots when skipBotMembers is set; when it runs to completion it has
\* classified all of them, scannedCount is their number, and every matched
\* member is counted once, as kicked or as failed.
C23_ScanCountsAndOrder ==
    LET expected == ExpectedMembers(scan.listed)
    IN /\ Len(scan.processed) <= Len(expected)
       /\ \A k \in 1..Len(scan.processed) : scan.processed[k] = expected[k]
       /\ skipBotMembers => \A k \in 1..Len(scan.processed) : ~scan.processed[k].isBot
       /\ (scan.pc = "done" /\ scan.caught = "none")
             => /\ scan.processed = expected
                /\ scan.scannedCount = Len(expected)
                /\ scan.blacklistedCount = scan.kickedCount + scan.failedKickCount
                /\ scan.kickCalls = scan.blacklistedCount

C23_Witness ==
    /\ scan.pc = "done"
    /\ scan.caught = "none"
    /\ skipBotMembers
    /\ scan.listed = <<BotMember, BadNickMember>>
    /\ scan.scannedCount = 1
    /\ scan.failedKickCount = 1

----------------------------------------------------------------------------
(* The operator commands of the first version of the plugin
   (src/unnamed/part_000), which tests config.blacklist directly *)

CmdIds == {U1, U2}
\* the <qq:string> argument; <<>> is a command given without it
CmdArgs == CmdIds \cup {<<>>}

\* Array.prototype.includes and indexOf (0 stands for -1)
ArrayIncludes(list, x) == \E k \in 1..Len(list) : list[k] = x
IndexOf(list, x) ==
    IF ArrayIncludes(list, x)
    THEN CHOOSE k \in 1..Len(list) : list[k] = x /\ \A j \in 1..(k - 1) : list[j] # x
    ELSE 0

\* list.splice(index, 1)
Splice(list, index) ==
    [k \in 1..(Len(list) - 1) |-> IF k < index THEN list[k] ELSE list[k + 1]]

CmdUnchanged ==
    UNCHANGED <<ccVars, kVars, cfgVars, scVars, blVars, newUserNicknameCache,
                handlers, timers, disposed>>

\* the auto-kick.add command
AddCommand(qq) ==
    /\ cmd.count < MaxCommands
    /\ IF qq = <<>>
       THEN /\ cmd' = [cmd EXCEPT !.last = "add", !.qq = qq, !.reply = "usage",
                                  !.before = configBlacklist, !.kickCalled = FALSE,
                                  !.count = cmd.count + 1]
            /\ UNCHANGED configBlacklist
       ELSE IF ArrayIncludes(configBlacklist, qq)
       THEN /\ cmd' = [cmd EXCEPT !.last = "add", !.qq = qq, !.reply = "already",
                                  !.before = configBlacklist, !.kickCalled = FALSE,
                                  !.count = cmd.count + 1]
            /\ UNCHANGED configBlacklist
       ELSE /\ configBlacklist' = Append(configBlacklist, qq)
            /\ cmd' = [cmd EXCEPT !.last = "add", !.qq = qq, !.reply = "added",
                                  !.before = configBlacklist, !.kickCalled = FALSE,
                                  !.removed = cmd.removed \ {qq},
                                  !.count = cmd.count + 1]
    /\ CmdUnchanged

\* the auto-kick.remove command
RemoveCommand(qq) ==
    /\ cmd.count < MaxCommands
    /\ IF qq = <<>>
       THEN /\ cmd' = [cmd EXCEPT !.last = "remove", !.qq = qq, !.reply = "usage",
                                  !.before = configBlacklist, !.kickCalled = FALSE,
                                  !.count = cmd.count + 1]
            /\ UNCHANGED configBlacklist
       ELSE IF IndexOf(configBlacklist, qq) = 0
       THEN /\ cmd' = [cmd EXCEPT !.last = "remove", !.qq = qq, !.reply = "absent",
                                  !.before = configBlacklist, !.kickCalled = FALSE,
                                  !.count = cmd.count + 1]
            /\ UNCHANGED configBlacklist
       ELSE /\ configBlacklist' = Splice(configBlacklist, IndexOf(configBlacklist, qq))
            /\ cmd' = [cmd EXCEPT !.last = "remove", !.qq = qq, !.reply = "removed",
                                  !.before = configBlacklist, !.kickCalled = FALSE,
                                  !.removed = cmd.removed \cup {qq},
                                  !.count = cmd.count + 1]
    /\ CmdUnchanged

\* checkAndKickUser of part_000 for a user who joined or was listed by a scan:
\* kickGuildMember is called iff config.blacklist includes the identifier
CheckListed(userId) ==
    /\ cmd.last # "check"
    /\ cmd' = [cmd EXCEPT !.last = "check", !.qq = userId, !.reply = "",
                          !.before = configBlacklist,
                          !.kickCalled = ArrayIncludes(configBlacklist, userId)]
    /\ UNCHANGED configBlacklist
    /\ CmdUnchanged

InitCmd ==
    /\ NewController(DefaultMaxConcurrent)
    /\ KickQuiet
    /\ enableMemberJoin = TRUE
    /\ skipBotMembers = TRUE
    /\ enableDelayedNicknameCheck = TRUE
    /\ nicknameMatchMode = "contains"
    /\ ScanConfigDefault
    /\ Constructed(<<>>, <<>>)
    /\ configBlacklist \in SeqsUpTo(CmdIds, MaxConfigured)
    /\ cmd = NoCommand

NextCmd ==
    \/ \E qq \in CmdArgs : AddCommand(qq)
    \/ \E qq \in CmdArgs : RemoveCommand(qq)
    \/ \E userId \in CmdIds : CheckListed(userId)

SpecCmd == InitCmd /\ [][NextCmd]_vars

\* C20: a successful add leaves q blacklisted, an add of a present q leaves
\* the list unchanged, a remove that reports success leaves q out of the
\* list, and a later join or scan of a removed q calls no removal.
C20_CommandsTakeEffect ==
    /\ (cmd.last = "add" /\ cmd.reply = "added")
          => ArrayIncludes(configBlacklist, cmd.qq)
    /\ (cmd.last = "add" /\ cmd.reply = "already") => configBlacklist = cmd.before
    /\ (cmd.last = "remove" /\ cmd.reply = "removed")
          => ~ArrayIncludes(configBlacklist, cmd.qq)
    /\ (cmd.last = "check" /\ cmd.qq \in cmd.removed) => ~cmd.kickCalled

====
